---- MODULE Spec2Model ----
(***************************************************************************)
(* Media Asset Nexus (src/main.py): the thumbnail workers, the cache list, *)
(* the trim export and the trim slider, as a state machine.                *)
(*                                                                         *)
(* File names are records [base, trim, ext]: pathlib's stem is the pair    *)
(* (base, trim), its suffix is ext; trim is the sequence of <<start,end>>  *)
(* pairs that trim_media appended as "_trimmed_<start>_<end>".  A path is  *)
(* [dir, name].  Python's None is the NoPath / NoName record.              *)
(***************************************************************************)
EXTENDS Integers, Sequences, FiniteSets, TLC

\* ------------------------------------------------------------------ bounds
MaxDuration == 1   \* duration (ms) of the original media files
MaxItems    == 5   \* item objects ever created; every cache entry and every
                   \* thumbnail worker has an item of its own, so this bounds both
MaxButtons  == 2   \* mouse buttons that can be held at once

\* -------------------------------------------------------------- file names
NoName == [base |-> "", trim |-> <<>>, ext |-> ""]
NoPath == [dir |-> "", name |-> NoName]

Name(b, e) == [base |-> b, trim |-> <<>>, ext |-> e]
Path(d, n) == [dir |-> d, name |-> n]

CacheDir == "nexus_cache"
ThumbDir == "nexus_cache/thumbnails"

VIDEO_EXTENSIONS == {".mp4", ".mov", ".avi", ".mkv"}
AUDIO_EXTENSIONS == {".mp3", ".wav", ".flac", ".aac"}
SUPPORTED_MEDIA_TYPES == VIDEO_EXTENSIONS \cup AUDIO_EXTENSIONS

\* str.lower() on the few letters the model's names use
LowerStr(s) == CASE s = "A" -> "a"
                 [] s = ".MP4" -> ".mp4"
                 [] OTHER -> s
Lower(n) == [n EXCEPT !.base = LowerStr(@), !.ext = LowerStr(@)]

\* any(file_lower.endswith(ext) for ext in exts)
EndsWithAny(n, exts) == LowerStr(n.ext) \in exts

\* os.path.basename / os.path.dirname / os.path.join
basename(p) == p.name
dirname(p)  == p.dir

\* ------------------------------------------------- the files on disk (env)
\* os.scandir of each library folder the user can pick, in scan order
DirListing(d) == CASE d = "L1" -> << Name("a", ".mp4") >>
                   [] d = "L2" -> << Name("a", ".mov") >>
                   [] OTHER    -> << >>
LibDirs == {"L1", "L2"}

\* what nexus_cache holds when the program starts
InitialCacheFiles == { {}, {Name("c", ".mp4")}, {Name("c", ".mp4"), Name("s", ".mp3")} }

\* os.listdir order of the cache directory at startup
RECURSIVE SetToSeq(_)
SetToSeq(S) == IF S = {} THEN << >>
               ELSE LET x == CHOOSE y \in S : TRUE
                    IN  << x >> \o SetToSeq(S \ {x})

\* texts the user types into the rename dialog
RenameTexts == { Name("c", ".mp4") }

\* ProTrimSlider.__init__ (112-119)
InitialMax        == 100   \* _max_val and _end_marker before any media is loaded
handle_width      == 16
snap_threshold_px == 10
frame_duration_ms  == 33    \* keyPressEvent: approx. 1 frame at 30fps

\* widths the layout may give the slider; width - handle_width is a power of
\* two, so the float division of _pos_to_value is exact
Widths == {32}

\* ------------------------------------------------------------ time texts
\* A text is a sequence of one-character strings.
DigitChars == << "0", "1", "2", "3", "4", "5", "6", "7", "8", "9" >>
IsDigit(c) == \E d \in 1..10 : DigitChars[d] = c
DigitVal(c) == (CHOOSE d \in 1..10 : DigitChars[d] = c) - 1

\* str(n) for n >= 0
RECURSIVE Decimal(_)
Decimal(n) == IF n < 10 THEN << DigitChars[n + 1] >>
              ELSE Decimal(n \div 10) \o << DigitChars[(n % 10) + 1] >>

\* f"{n:02d}" and f"{n:03d}": zero-padded to at least 2 (3) characters
Padded2(n) ==
  IF n < 100 THEN << DigitChars[(n \div 10) + 1], DigitChars[(n % 10) + 1] >>
  ELSE Decimal(n)

Padded3(n) ==
  IF n < 1000 THEN << DigitChars[(n \div 100) + 1], DigitChars[((n \div 10) % 10) + 1],
                      DigitChars[(n % 10) + 1] >>
  ELSE Decimal(n)

\* int() of a text of digits
RECURSIVE IntOf(_)
IntOf(t) == IF t = << >> THEN 0
            ELSE 10 * IntOf(SubSeq(t, 1, Len(t) - 1)) + DigitVal(t[Len(t)])

\* fault variant of format_time: the milliseconds without their zero padding
format_time_unpadded(ms) ==
  LET ms0 == IF ms < 0 THEN 0 ELSE ms
      s0  == ms0 \div 1000
      ms1 == ms0 % 1000
      m   == s0 \div 60
      s1  == s0 % 60
  IN  Padded2(m) \o << ":" >> \o Padded2(s1) \o << "." >> \o Decimal(ms1)

\* format_time (760-764)
format_time(ms) ==
  LET ms0 == IF ms < 0 THEN 0 ELSE ms
      s0  == ms0 \div 1000
      ms1 == ms0 % 1000
      m   == s0 \div 60
      s1  == s0 % 60
  IN  Padded2(m) \o << ":" >> \o Padded2(s1) \o << "." >> \o Padded3(ms1)

\* Python's None where a number is expected (parse_time, line 771)
None == -1

\* re.match(r'(\d{1,2}):(\d{2})\.(\d{3})', time_str) with n minute digits: the
\* pattern is matched at the start of the text, and the text may go on after it
MatchesWith(time_str, n) ==
  /\ Len(time_str) >= n + 7
  /\ \A i \in 1..n : IsDigit(time_str[i])
  /\ time_str[n + 1] = ":"
  /\ IsDigit(time_str[n + 2]) /\ IsDigit(time_str[n + 3])
  /\ time_str[n + 4] = "."
  /\ \A i \in (n + 5)..(n + 7) : IsDigit(time_str[i])

\* parse_time (766-771); \d{1,2} is greedy, and at most one of the two lengths
\* can be followed by ':'
parse_time(time_str) ==
  LET n == IF MatchesWith(time_str, 2) THEN 2
           ELSE IF MatchesWith(time_str, 1) THEN 1 ELSE 0
  IN  IF n = 0 THEN None
      ELSE LET m  == IntOf(SubSeq(time_str, 1, n))
               s0 == IntOf(SubSeq(time_str, n + 2, n + 3))
               ms == IntOf(SubSeq(time_str, n + 5, n + 7))
           IN  (m * 60 + s0) * 1000 + ms

VARIABLES
  phase,                \* "constructing" until MainWindow.__init__ has run
  ffmpeg_path,          \* TRUE when check_ffmpeg found the binary
  library_paths,        \* sequence of library folders
  lib_items,            \* library_model: sequence of [id, path]
  cache_list,           \* cache_list: sequence of [id, text, path]
  icon,                 \* item id -> icon (NoName is the placeholder icon)
  deleted,              \* ids of items whose C++ object was destroyed
  next_id,              \* next item object id
  thumbnail_workers,    \* sequence of ThumbnailGenerator records
  thumb_files,          \* thumbnails directory: set of [name, src]
  cache_files,          \* cache directory: set of names
  current_media_path,
  btn_trim_enabled,
  player_duration,      \* media_player.duration()
  start_time_ms,
  end_time_ms,
  time_edit_start,      \* text of the start time field
  time_edit_end,        \* text of the end time field
  playing,              \* media_player.playbackState() == PlayingState
  player_position,      \* media_player.position()
  was_playing_before_drag,
  min_val, max_val,     \* ProTrimSlider._min_val, _max_val
  position,             \* ProTrimSlider._position
  start_marker,         \* ProTrimSlider._start_marker
  end_marker,           \* ProTrimSlider._end_marker
  dragging,             \* ProTrimSlider._dragging ("none" is None)
  buttons,              \* mouse buttons held down over the slider
  playing_at_press,     \* history: the player was playing when the first of the
                        \* buttons now held went down
  width,                \* ProTrimSlider.width(), fixed by the layout
  shift_down,           \* QGuiApplication.keyboardModifiers() & Qt.ShiftModifier
  last                  \* what the last handler did (dialogs, processes, errors)

assets == << phase, ffmpeg_path, library_paths, lib_items, cache_list, icon, deleted,
             next_id, thumbnail_workers, thumb_files, cache_files >>
texts  == << time_edit_start, time_edit_end >>
media  == << current_media_path, btn_trim_enabled, player_duration,
             start_time_ms, end_time_ms, texts, playing, player_position >>
range  == << min_val, max_val >>
slider == << range, position, start_marker, end_marker, dragging, buttons, playing_at_press,
             width, shift_down,
             was_playing_before_drag >>
vars   == << assets, media, slider, last >>

\* The record every handler leaves behind: its name, the dialog it showed, the
\* exception it raised, whether it ran the transcoder, on which output, whether the
\* run wrote that file, whether add_to_cache_list inserted an item, the pointer
\* x of a mouse press, and the values the slider emitted with positionChanged.
Did(op) == [op |-> op, dialog |-> "none", raised |-> "none",
            transcoder |-> "none", output |-> NoPath, wrote |-> FALSE, added |-> FALSE,
            px |-> << >>, seek |-> << >>]

\* ------------------------------------------------ ThumbnailGenerator (30-56)
ThumbnailGenerator(item, media_path, thumb_path) ==
  [item |-> item, media_path |-> media_path, thumb_path |-> thumb_path,
   pc |-> "check",       \* position in run(): check, extract, recheck, queued, done
   hit |-> FALSE,        \* os.path.exists(thumb_path) was true at line 42
   ran |-> FALSE,        \* subprocess.run was called (line 48)
   failed |-> FALSE,     \* run() ended in its except clause
   emitted |-> FALSE,    \* thumbnailReady was emitted (line 53)
   delivery |-> "none"]  \* on_thumbnail_ready: "applied", or "raised" (an exception)

ThumbExists(files, n) == \E f \in files : f.name = n

\* request_thumbnail (606-614): thumb name is "<stem of basename>.jpg"
thumb_filename(media_path) == [basename(media_path) EXCEPT !.ext = ".jpg"]

request_thumbnail(workers, item, media_path) ==
  Append(workers, ThumbnailGenerator(item, media_path, thumb_filename(media_path)))

\* populate_directory (578-603) over the entries of one folder; st is
\* [next_id, items, workers]
RECURSIVE populate_entries(_, _, _, _)
populate_entries(st, dir_path, entries, ffmpeg) ==
  IF entries = << >> THEN st
  ELSE LET e  == Head(entries)
           p  == Path(dir_path, e)
           id == st.next_id
           st1 == [next_id |-> id + 1,
                   items   |-> Append(st.items, [id |-> id, path |-> p]),
                   workers |-> IF EndsWithAny(e, VIDEO_EXTENSIONS) /\ ffmpeg
                               THEN request_thumbnail(st.workers, id, p)
                               ELSE st.workers]
       IN  populate_entries(st1, dir_path, Tail(entries), ffmpeg)

populate_directory(st, dir_path, ffmpeg) ==
  populate_entries(st, dir_path, DirListing(dir_path), ffmpeg)

\* populate_libraries (566-576) after library_model.clear(): one root item per
\* folder that is a directory, then its entries
RECURSIVE populate_paths(_, _, _)
populate_paths(st, paths, ffmpeg) ==
  IF paths = << >> THEN st
  ELSE LET path == Head(paths)
           st1  == IF path \in LibDirs
                   THEN populate_directory(
                          [st EXCEPT !.next_id = @ + 1,
                                     !.items = Append(@, [id |-> st.next_id,
                                                          path |-> Path(path, NoName)])],
                          path, ffmpeg)
                   ELSE st
       IN  populate_paths(st1, Tail(paths), ffmpeg)

populate_libraries(paths, workers, nid, ffmpeg) ==
  populate_paths([next_id |-> nid, items |-> << >>, workers |-> workers], paths, ffmpeg)

ItemIds(items) == { items[i].id : i \in 1..Len(items) }

\* every new item object starts with a standard (placeholder) icon; the icon
\* of a destroyed object is gone
Icons(old, nid, dead) ==
  [id \in 1..(nid - 1) |-> IF id \in DOMAIN old /\ id \notin dead THEN old[id] ELSE NoName]

\* fault variant of add_to_cache_list: no findItems check before the insert
add_to_cache_list_unchecked(st, file_path, ffmpeg) ==
  LET base_name == basename(file_path) IN
  [next_id |-> st.next_id + 1,
   items   |-> Append(st.items, [id |-> st.next_id, text |-> base_name,
                                 path |-> file_path]),
   workers |-> IF EndsWithAny(base_name, VIDEO_EXTENSIONS) /\ ffmpeg
               THEN request_thumbnail(st.workers, st.next_id, file_path)
               ELSE st.workers]

\* add_to_cache_list (870-883); st is [next_id, items, workers] with items the
\* cache_list.  findItems(base_name, Qt.MatchFixedString) matches the item
\* text without regard to case.
findItems(items, base_name) ==
  { i \in 1..Len(items) : Lower(items[i].text) = Lower(base_name) }

add_to_cache_list(st, file_path, ffmpeg) ==
  LET base_name == basename(file_path) IN
  IF findItems(st.items, base_name) = {}
  THEN [next_id |-> st.next_id + 1,
        items   |-> Append(st.items, [id |-> st.next_id, text |-> base_name,
                                      path |-> file_path]),
        workers |-> IF EndsWithAny(base_name, VIDEO_EXTENSIONS) /\ ffmpeg
                    THEN request_thumbnail(st.workers, st.next_id, file_path)
                    ELSE st.workers]
  ELSE st

\* load_cache (622-627)
RECURSIVE load_cache_from(_, _, _)
load_cache_from(st, filenames, ffmpeg) ==
  IF filenames = << >> THEN st
  ELSE LET st1 == IF EndsWithAny(Head(filenames), SUPPORTED_MEDIA_TYPES)
                  THEN add_to_cache_list(st, Path(CacheDir, Head(filenames)), ffmpeg)
                  ELSE st
       IN  load_cache_from(st1, Tail(filenames), ffmpeg)

load_cache(workers, nid, files, ffmpeg) ==
  load_cache_from([next_id |-> nid, items |-> << >>, workers |-> workers],
                  SetToSeq(files), ffmpeg)

Bounded(nid) == nid <= MaxItems + 1

\* what an earlier run of the program left in the thumbnail folder
InitialThumbFiles ==
  { {}, {[name |-> Name("a", ".jpg"), src |-> Path("L1", Name("a", ".mp4")),
          whole |-> TRUE]} }

\* ---------------------------------------------------------------- Init
Init ==
  /\ phase = "constructing"
  /\ ffmpeg_path \in BOOLEAN
  /\ library_paths \in { << >>, << "L1" >> }
  /\ lib_items = << >>
  /\ cache_list = << >>
  /\ icon = << >>
  /\ deleted = {}
  /\ next_id = 1
  /\ thumbnail_workers = << >>
  /\ thumb_files \in InitialThumbFiles
  /\ cache_files \in InitialCacheFiles
  /\ current_media_path = NoPath
  /\ btn_trim_enabled = FALSE
  /\ player_duration = 0
  /\ start_time_ms = 0
  /\ end_time_ms = 0
  /\ time_edit_start = << "0", "0", ":", "0", "0", ".", "0", "0", "0" >>
  /\ time_edit_end = << "0", "0", ":", "0", "0", ".", "0", "0", "0" >>
  /\ playing = FALSE
  /\ player_position = 0
  /\ was_playing_before_drag = FALSE
  /\ min_val = 0
  /\ max_val = InitialMax
  /\ position = 0
  /\ start_marker = 0
  /\ end_marker = InitialMax
  /\ dragging = "none"
  /\ buttons = 0
  /\ playing_at_press = FALSE
  /\ width \in Widths
  /\ shift_down = FALSE
  /\ last = Did("none")

\* MainWindow.__init__ (274-303): populate_libraries(), then load_cache()
MainWindowInit ==
  /\ phase = "constructing"
  /\ LET lib == populate_libraries(library_paths, thumbnail_workers, next_id, ffmpeg_path)
         cch == load_cache(lib.workers, lib.next_id, cache_files, ffmpeg_path)
     IN  /\ lib_items' = lib.items
         /\ cache_list' = cch.items
         /\ thumbnail_workers' = cch.workers
         /\ next_id' = cch.next_id
         /\ icon' = Icons(icon, cch.next_id, deleted)
  /\ phase' = "running"
  /\ last' = Did("__init__")
  /\ UNCHANGED << ffmpeg_path, library_paths, deleted, thumb_files, cache_files, media,
                  slider >>

\* ------------------------------------------------ ThumbnailGenerator.run
\* fault variant of run_check: the extractor is invoked whatever line 42 finds
run_check_always_extracts(i) ==
  LET w == thumbnail_workers[i] IN
  /\ w.pc = "check"
  /\ thumbnail_workers' =
       [thumbnail_workers EXCEPT ![i] =
          [w EXCEPT !.pc = "extract", !.ran = TRUE,
                    !.hit = ThumbExists(thumb_files, w.thumb_path)]]
  /\ UNCHANGED << phase, ffmpeg_path, library_paths, lib_items, cache_list, icon, deleted,
                  next_id, thumb_files, cache_files, media, slider, last >>

\* line 42: os.path.exists(self.thumb_path); when it is false the command is
\* built and subprocess.run is called
run_check(i) ==
  LET w == thumbnail_workers[i] IN
  /\ w.pc = "check"
  /\ thumbnail_workers' =
       [thumbnail_workers EXCEPT ![i] =
          IF ThumbExists(thumb_files, w.thumb_path)
          THEN [w EXCEPT !.pc = "recheck", !.hit = TRUE]
          ELSE [w EXCEPT !.pc = "extract", !.ran = TRUE]]
  /\ UNCHANGED << phase, ffmpeg_path, library_paths, lib_items, cache_list, icon, deleted,
                  next_id, thumb_files, cache_files, media, slider, last >>

\* fault variant of run_extract: subprocess.run without check=True, so a failed
\* extractor raises nothing and run() goes on to line 52
run_extract_unchecked(i) ==
  LET w == thumbnail_workers[i] IN
  /\ w.pc = "extract"
  /\ \E result \in {"ok", "failed", "partial"} :
       LET there == ThumbExists(thumb_files, w.thumb_path)
           ok    == result = "ok" /\ ~there
       IN  /\ thumb_files' =
                IF there \/ result = "failed" THEN thumb_files
                ELSE thumb_files \cup {[name |-> w.thumb_path, src |-> w.media_path,
                                        whole |-> result = "ok"]}
           /\ thumbnail_workers' =
                [thumbnail_workers EXCEPT ![i] =
                   IF ok THEN [w EXCEPT !.pc = "recheck"]
                   ELSE [w EXCEPT !.pc = "recheck", !.failed = TRUE]]
  /\ UNCHANGED << phase, ffmpeg_path, library_paths, lib_items, cache_list, icon, deleted,
                  next_id, cache_files, media, slider, last >>

\* lines 48-51: the frame extractor runs (no overwrite flag, -nostdin: it
\* exits nonzero when the output exists by then).  It exits 0 having written the
\* frame, or fails (nonzero exit or launch failure, with or without a partial
\* file); check=True turns a failure into an exception, caught at line 54.
run_extract(i) ==
  LET w == thumbnail_workers[i] IN
  /\ w.pc = "extract"
  /\ \E result \in {"ok", "failed", "partial"} :
       LET there == ThumbExists(thumb_files, w.thumb_path)
           ok    == result = "ok" /\ ~there
       IN  /\ thumb_files' =
                IF there \/ result = "failed" THEN thumb_files
                ELSE thumb_files \cup {[name |-> w.thumb_path, src |-> w.media_path,
                                        whole |-> result = "ok"]}
           /\ thumbnail_workers' =
                [thumbnail_workers EXCEPT ![i] =
                   IF ok THEN [w EXCEPT !.pc = "recheck"]
                   ELSE [w EXCEPT !.pc = "done", !.failed = TRUE]]
  /\ UNCHANGED << phase, ffmpeg_path, library_paths, lib_items, cache_list, icon, deleted,
                  next_id, cache_files, media, slider, last >>

\* lines 52-53: emit thumbnailReady(item, QIcon(thumb_path)) when the file exists;
\* the signal is queued to the control thread
run_recheck(i) ==
  LET w == thumbnail_workers[i] IN
  /\ w.pc = "recheck"
  /\ thumbnail_workers' =
       [thumbnail_workers EXCEPT ![i] =
          IF ThumbExists(thumb_files, w.thumb_path)
          THEN [w EXCEPT !.pc = "queued", !.emitted = TRUE]
          ELSE [w EXCEPT !.pc = "done"]]
  /\ UNCHANGED << phase, ffmpeg_path, library_paths, lib_items, cache_list, icon, deleted,
                  next_id, thumb_files, cache_files, media, slider, last >>

\* on_thumbnail_ready (616-619), run by the event loop for a queued signal.
\* `if item:` is true of every item object, destroyed or not; setIcon on an
\* item whose C++ object library_model.clear() destroyed raises RuntimeError.
on_thumbnail_ready(i) ==
  LET w == thumbnail_workers[i] IN
  /\ phase = "running"
  /\ w.pc = "queued"
  /\ IF w.item \in deleted
     THEN /\ icon' = icon
          /\ thumbnail_workers' =
               [thumbnail_workers EXCEPT ![i] = [w EXCEPT !.pc = "done", !.delivery = "raised"]]
          /\ last' = [Did("on_thumbnail_ready") EXCEPT !.raised = "RuntimeError"]
     ELSE /\ icon' = [icon EXCEPT ![w.item] = w.thumb_path]
          /\ thumbnail_workers' =
               [thumbnail_workers EXCEPT ![i] = [w EXCEPT !.pc = "done", !.delivery = "applied"]]
          /\ last' = Did("on_thumbnail_ready")
  /\ UNCHANGED << phase, ffmpeg_path, library_paths, lib_items, cache_list, deleted,
                  next_id, thumb_files, cache_files, media, slider >>

\* ------------------------------------------------ library management
\* the tail of add_library / remove_library: save_config(), populate_libraries()
Repopulate(paths, op) ==
  LET lib  == populate_libraries(paths, thumbnail_workers, next_id, ffmpeg_path)
      dead == deleted \cup ItemIds(lib_items)
  IN  /\ Bounded(lib.next_id)
      /\ library_paths' = paths
      /\ lib_items' = lib.items
      /\ thumbnail_workers' = lib.workers
      /\ next_id' = lib.next_id
      /\ deleted' = dead
      /\ icon' = Icons(icon, lib.next_id, dead)
      /\ last' = Did(op)
      /\ UNCHANGED << phase, ffmpeg_path, cache_list, thumb_files, cache_files, media,
                      slider >>

InSeq(x, q) == \E k \in 1..Len(q) : q[k] = x
Without(q, x) == SelectSeq(q, LAMBDA y : y # x)

\* add_library (546-551)
add_library ==
  /\ phase = "running"
  /\ \E folder_path \in LibDirs :
       /\ ~InSeq(folder_path, library_paths)
       /\ Repopulate(Append(library_paths, folder_path), "add_library")

\* remove_library (553-564): the root of the selected library item
remove_library ==
  /\ phase = "running"
  /\ \E k \in 1..Len(lib_items) :
       LET path_to_remove == lib_items[k].path.dir IN
       /\ InSeq(path_to_remove, library_paths)
       /\ Repopulate(Without(library_paths, path_to_remove), "remove_library")

\* ------------------------------------------------ player and trim times
\* clear_player_state (706-714): stop(), setSource(QUrl()), reset_trim_times().
\* Whether duration() is already 0 right after setSource(QUrl()) depends on the
\* multimedia backend: either it still reports the old duration (dur is the old
\* value), or it dropped to 0 and durationChanged(0) ran duration_changed.
\* (The playback state it leaves, stopped, is set by its callers: load_media
\* goes on to play.)
clear_player_state(dur) ==
  /\ dur \in {0, player_duration}
  /\ player_position' = 0
  /\ position' = 0
  /\ player_duration' = dur
  /\ IF dur # player_duration
     THEN min_val' = 0 /\ max_val' = 0
     ELSE UNCHANGED range
  /\ start_time_ms' = 0
  /\ end_time_ms' = dur
  /\ time_edit_start' = format_time(0)
  /\ time_edit_end' = format_time(dur)
  /\ start_marker' = 0
  /\ end_marker' = dur

IsFile(file_path) ==
  \/ /\ file_path.dir \in LibDirs
     /\ InSeq(file_path.name, DirListing(file_path.dir))
  \/ /\ file_path.dir = CacheDir
     /\ file_path.name \in cache_files

\* fault variant of load_media: the trim button is enabled whether or not a
\* transcoder was found
load_media_trim_always(file_path) ==
  /\ \E dur \in {0, player_duration} :
       /\ clear_player_state(dur)
       /\ playing' = TRUE
  /\ current_media_path' = file_path
  /\ btn_trim_enabled' = TRUE
  /\ last' = Did("load_media")
  /\ UNCHANGED << assets, dragging, buttons, playing_at_press,
                  width, shift_down, was_playing_before_drag >>

\* load_media (696-704), reached from on_file_selected (687-694) and
\* on_cache_item_selected (676-680) for an item whose path is a file
load_media(file_path) ==
  /\ \E dur \in {0, player_duration} :
       /\ clear_player_state(dur)
       /\ playing' = TRUE             \* play_media(): the player was stopped
  /\ current_media_path' = file_path
  /\ btn_trim_enabled' = ffmpeg_path
  /\ last' = Did("load_media")
  /\ UNCHANGED << assets, dragging, buttons, playing_at_press,
                  width, shift_down, was_playing_before_drag >>

on_file_selected ==
  /\ phase = "running"
  /\ \E k \in 1..Len(lib_items) :
       /\ IsFile(lib_items[k].path)
       /\ load_media(lib_items[k].path)

on_cache_item_selected ==
  /\ phase = "running"
  /\ \E k \in 1..Len(cache_list) :
       /\ IsFile(cache_list[k].path)
       /\ load_media(cache_list[k].path)

\* the duration the player finds in a file: MaxDuration for an original, the
\* length of the trimmed range for an output of trim_media
DurationOf(file_path) ==
  LET trim == basename(file_path).trim IN
  IF file_path = NoPath THEN 0
  ELSE IF trim = << >> THEN MaxDuration
  ELSE trim[Len(trim)][2] - trim[Len(trim)][1]

\* duration_changed (735-739) with reset_trim_times (773-779): the player
\* reports the duration of its source once it is known (the signal is emitted
\* when the value changes)
duration_changed ==
  /\ phase = "running"
  /\ LET d == DurationOf(current_media_path) IN
       /\ d # player_duration
       /\ player_duration' = d
       /\ min_val' = 0
       /\ max_val' = d
       /\ start_time_ms' = 0
       /\ end_time_ms' = d
       /\ time_edit_start' = format_time(0)
       /\ time_edit_end' = format_time(d)
       /\ start_marker' = 0
       /\ end_marker' = d
  /\ last' = Did("duration_changed")
  /\ UNCHANGED << assets, current_media_path, btn_trim_enabled, playing, player_position,
                  position, dragging, buttons, playing_at_press,
                  width, shift_down, was_playing_before_drag >>

\* ------------------------------------------------ trim times
\* texts the user leaves in a time field before editingFinished
TypedTexts ==
  { << "0", "0", ":", "0", "0", ".", "0", "0", "1" >>,
    << "0", "1", ":", "0", "1", ".", "2", "3", "4" >>,
    << "1", ":", "0", "1", ".", "2", "3", "4" >>,
    << "9", "9", ":", "5", "9", ".", "9", "9", "9" >>,
    << "9", "9", ":", "9", "9", ".", "9", "9", "9" >>,
    << "1", ":", "1", ".", "2", "3" >>,
    << "0", "1", ":", "0", "1", ".", "2", "3", "4", "x" >>,
    << "1", "0", "0", ":", "0", "0", ".", "0", "0", "0" >>,
    << >> }

\* set_start_time_from_text (807-814), the editingFinished of the start field
\* with `text` in it
set_start_time_from_text ==
  /\ phase = "running"
  /\ \E text \in TypedTexts \cup {time_edit_start} :
       LET new_start_ms == parse_time(text) IN
       IF new_start_ms # None /\ new_start_ms < end_time_ms
       THEN /\ start_time_ms' = new_start_ms
            /\ start_marker' = new_start_ms
            /\ time_edit_start' = text
       ELSE /\ time_edit_start' = format_time(start_time_ms)
            /\ UNCHANGED << start_time_ms, start_marker >>
  /\ last' = Did("set_start_time_from_text")
  /\ UNCHANGED << assets, current_media_path, btn_trim_enabled, player_duration,
                  end_time_ms, time_edit_end, playing, player_position, range, position,
                  end_marker, dragging, buttons, playing_at_press,
                  width, shift_down, was_playing_before_drag >>

\* set_end_time_from_text (816-823)
set_end_time_from_text ==
  /\ phase = "running"
  /\ \E text \in TypedTexts \cup {time_edit_end} :
       LET new_end_ms == parse_time(text) IN
       IF new_end_ms # None /\ new_end_ms > start_time_ms
       THEN /\ end_time_ms' = new_end_ms
            /\ end_marker' = new_end_ms
            /\ time_edit_end' = text
       ELSE /\ time_edit_end' = format_time(end_time_ms)
            /\ UNCHANGED << end_time_ms, end_marker >>
  /\ last' = Did("set_end_time_from_text")
  /\ UNCHANGED << assets, current_media_path, btn_trim_enabled, player_duration,
                  start_time_ms, time_edit_start, playing, player_position, range,
                  position, start_marker, dragging, buttons, playing_at_press, width, shift_down,
                  was_playing_before_drag >>

\* set_start_time_from_playhead (781-786)
set_start_time_from_playhead ==
  /\ phase = "running"
  /\ LET pos == player_position IN
       IF pos < end_time_ms
       THEN /\ start_time_ms' = pos
            /\ start_marker' = pos
            /\ time_edit_start' = format_time(pos)
       ELSE UNCHANGED << start_time_ms, start_marker, time_edit_start >>
  /\ last' = Did("set_start_time_from_playhead")
  /\ UNCHANGED << assets, current_media_path, btn_trim_enabled, player_duration,
                  end_time_ms, time_edit_end, playing, player_position, range, position,
                  end_marker, dragging, buttons, playing_at_press,
                  width, shift_down, was_playing_before_drag >>

\* set_end_time_from_playhead (788-793)
set_end_time_from_playhead ==
  /\ phase = "running"
  /\ LET pos == player_position IN
       IF pos > start_time_ms
       THEN /\ end_time_ms' = pos
            /\ end_marker' = pos
            /\ time_edit_end' = format_time(pos)
       ELSE UNCHANGED << end_time_ms, end_marker, time_edit_end >>
  /\ last' = Did("set_end_time_from_playhead")
  /\ UNCHANGED << assets, current_media_path, btn_trim_enabled, player_duration,
                  start_time_ms, time_edit_start, playing, player_position, range,
                  position, start_marker, dragging, buttons, playing_at_press, width, shift_down,
                  was_playing_before_drag >>

\* ------------------------------------------------ cache management
ReplaceAt(q, k, x) == [q EXCEPT ![k] = x]
RemoveAt(q, k) == SubSeq(q, 1, k - 1) \o SubSeq(q, k + 1, Len(q))

\* lines 648-651: the item is changed after os.rename returned
renamed(items, k, new_name, new_path, renamed_ok) ==
  IF renamed_ok
  THEN ReplaceAt(items, k, [items[k] EXCEPT !.text = new_name, !.path = new_path])
  ELSE items

\* fault variant of removed: takeItem before os.remove is known to have worked
removed_before_remove(items, k, removed_ok) == RemoveAt(items, k)

\* lines 670-672: the item is taken out after os.remove returned
removed(items, k, removed_ok) ==
  IF removed_ok THEN RemoveAt(items, k) ELSE items

\* rename_cache_item (635-653).  os.rename fails (OSError) when the old file is
\* gone, and may fail for any other reason the system has; when it succeeds
\* onto an existing file, that file is replaced.
rename_cache_item ==
  /\ phase = "running"
  /\ \E k \in 1..Len(cache_list), new_name \in RenameTexts, os_ok \in BOOLEAN :
       LET item     == cache_list[k]
           old_path == item.path
           old_name == basename(old_path)
           new_path == Path(dirname(old_path), new_name)
       IN  IF new_name # old_name
           THEN LET done == os_ok /\ old_name \in cache_files IN
                /\ cache_files' = IF done THEN (cache_files \ {old_name}) \cup {new_name}
                                  ELSE cache_files
                /\ cache_list' = renamed(cache_list, k, new_name, new_path, done)
                /\ last' = IF done THEN Did("rename_cache_item")
                           ELSE [Did("rename_cache_item") EXCEPT
                                   !.dialog = "Rename Error", !.raised = "OSError"]
           ELSE /\ UNCHANGED << cache_files, cache_list >>
                /\ last' = Did("rename_cache_item")
  /\ UNCHANGED << phase, ffmpeg_path, library_paths, lib_items, icon, deleted, next_id,
                  thumbnail_workers, thumb_files, media, slider >>

\* delete_cache_item (655-674), the confirmation answered Yes.  The player is
\* cleared before the file is removed; os.remove fails when the file is gone
\* and may fail for any other reason.
delete_cache_item ==
  /\ phase = "running"
  /\ \E k \in 1..Len(cache_list), os_ok \in BOOLEAN :
       LET item      == cache_list[k]
           file_path == item.path
       IN  /\ IF current_media_path = file_path
              THEN /\ \E dur \in {0, player_duration} : clear_player_state(dur)
                   /\ playing' = FALSE
                   /\ current_media_path' = NoPath
                   /\ btn_trim_enabled' = FALSE
              ELSE UNCHANGED << media, range, position, start_marker, end_marker >>
           /\ LET done == os_ok /\ basename(file_path) \in cache_files IN
              /\ cache_files' = IF done THEN cache_files \ {basename(file_path)}
                                ELSE cache_files
              /\ cache_list' = removed(cache_list, k, done)
              /\ last' = IF done THEN Did("delete_cache_item")
                         ELSE [Did("delete_cache_item") EXCEPT
                                 !.dialog = "Delete Error", !.raised = "OSError"]
  /\ UNCHANGED << phase, ffmpeg_path, library_paths, lib_items, icon, deleted, next_id,
                  thumbnail_workers, thumb_files, dragging, buttons, playing_at_press,
                  width, shift_down,
                  was_playing_before_drag >>

\* ------------------------------------------------ trim export
\* output_filename (852-854): "<stem>_trimmed_<start>_<end><suffix>" in cache_dir
output_path(input_path, s, e) ==
  Path(CacheDir, [basename(input_path) EXCEPT !.trim = Append(@, << s, e >>)])

\* fault variant of trim_precheck: start > end where the code has start >= end
trim_precheck_strict(media_path, s, e) ==
  IF media_path = NoPath THEN "return"
  ELSE IF s > e THEN "Trim Error"
  ELSE "run"

\* the early returns of trim_media (847-850): "run" when the transcoder is to
\* be invoked
trim_precheck(media_path, s, e) ==
  IF media_path = NoPath THEN "return"
  ELSE IF s >= e THEN "Trim Error"
  ELSE "run"

\* trim_media (846-868), the click of the enabled trim button.  The transcoder
\* (-y: overwrite) exits 0 having written the output, exits nonzero with or
\* without a partly written output (CalledProcessError, caught), or cannot be
\* launched (OSError, which the except clause does not catch).
trim_media ==
  /\ phase = "running"
  /\ btn_trim_enabled
  /\ LET check == trim_precheck(current_media_path, start_time_ms, end_time_ms)
         out   == output_path(current_media_path, start_time_ms, end_time_ms)
     IN  IF check # "run"
         THEN /\ last' = [Did("trim_media") EXCEPT
                            !.dialog = IF check = "return" THEN "none" ELSE check]
              /\ UNCHANGED << assets, playing >>
         ELSE /\ playing' = FALSE
              /\ \E result \in {"ok", "failed", "partial", "launch"} :
                   LET done == result = "ok" /\ IsFile(current_media_path)
                       st   == add_to_cache_list(
                                 [next_id |-> next_id, items |-> cache_list,
                                  workers |-> thumbnail_workers], out, ffmpeg_path)
                   IN  IF done
                       THEN /\ Bounded(st.next_id)
                            /\ cache_files' = cache_files \cup {basename(out)}
                            /\ cache_list' = st.items
                            /\ thumbnail_workers' = st.workers
                            /\ next_id' = st.next_id
                            /\ icon' = Icons(icon, st.next_id, deleted)
                            /\ last' = [Did("trim_media") EXCEPT
                                          !.dialog = "Trim Success", !.transcoder = "ok",
                                          !.output = out, !.wrote = TRUE,
                                          !.added = st.items # cache_list]
                       ELSE /\ cache_files' =
                                 IF result = "partial" /\ IsFile(current_media_path)
                                 THEN cache_files \cup {basename(out)}
                                 ELSE cache_files
                            /\ last' = [Did("trim_media") EXCEPT
                                          !.dialog = IF result = "launch" THEN "none"
                                                     ELSE "FFmpeg Error",
                                          !.raised = IF result = "launch" THEN "OSError"
                                                     ELSE "none",
                                          !.transcoder = IF result = "launch"
                                                         THEN "not launched" ELSE "failed",
                                          !.output = out,
                                          !.wrote = result = "partial"
                                                      /\ IsFile(current_media_path)]
                            /\ UNCHANGED << cache_list, thumbnail_workers, next_id, icon >>
              /\ UNCHANGED << phase, ffmpeg_path, library_paths, lib_items, deleted,
                              thumb_files >>
  /\ UNCHANGED << current_media_path, btn_trim_enabled, player_duration, start_time_ms,
                  end_time_ms, texts, player_position, slider >>


\* ------------------------------------------------ ProTrimSlider
\* int(): truncation toward zero of num / den, den > 0
Trunc(num, den) == IF num >= 0 THEN num \div den ELSE -((-num) \div den)

Max(a, b) == IF a >= b THEN a ELSE b
Min(a, b) == IF a <= b THEN a ELSE b

\* _value_to_pos (135-139)
value_to_pos(value, lo, hi, w) ==
  LET track_width   == w - handle_width
      clamped_value == Max(lo, Min(value, hi))
  IN  IF hi - lo = 0 THEN handle_width \div 2
      ELSE Trunc((clamped_value - lo) * track_width, hi - lo) + handle_width \div 2

\* _pos_to_value (141-145)
pos_to_value(pos, lo, hi, w) ==
  LET track_width == w - handle_width IN
  IF track_width <= 0 THEN lo
  ELSE Max(lo, Min(hi, Trunc(lo * track_width + (pos - handle_width \div 2) * (hi - lo),
                             track_width)))

Abs(x) == IF x >= 0 THEN x ELSE -x

\* pointer x positions of the mouse events; a drag can leave the widget
Pixels == {-4, 12, 24}

\* media_player.setPosition(p) (set_position, 741-743) and the positionChanged
\* it emits, handled by position_changed (725-733): without a source the player
\* ignores the seek.  No drag handler runs while the player is playing
\* (on_slider_pressed paused it), so the loop branch of position_changed is
\* not taken here.
SeekResult(p) ==
  IF current_media_path = NoPath THEN player_position
  ELSE Max(0, Min(p, player_duration))

\* the handle mousePressEvent picks (222-231)
pick_handle(ex, pos_x, start_x, end_x) ==
  IF Abs(ex - start_x) < handle_width \div 2 THEN "start"
  ELSE IF Abs(ex - end_x) < handle_width \div 2 THEN "end"
  ELSE "position"

\* The marker drag of mouseMoveEvent (246-253): new_val is
\* prev_val + (current_val - prev_val) * fine_tune_factor, kept here as the
\* numerator over 4 (the factor is 0.25 or 1.0, so the float is exact); the
\* result is [emit, value]: whether the changed signal is emitted, and int(new_val).
start_drag(prev_val, current_val, shift, end_val) ==
  LET new4 == IF shift THEN 4 * prev_val + (current_val - prev_val) ELSE 4 * current_val
  IN  [emit |-> new4 < 4 * end_val, value |-> Trunc(new4, 4)]

end_drag(prev_val, current_val, shift, start_val) ==
  LET new4 == IF shift THEN 4 * prev_val + (current_val - prev_val) ELSE 4 * current_val
  IN  [emit |-> new4 > 4 * start_val, value |-> Trunc(new4, 4)]

\* positionChanged.emit(current_val) of a playhead drag (244-245)
emitted(drag, ex) ==
  IF drag = "position" THEN << pos_to_value(ex, min_val, max_val, width) >> ELSE << >>

\* mouseMoveEvent (236-254) for the drag `drag`, with the slots its signals run:
\* set_position, set_start_time_from_slider (795-799), set_end_time_from_slider
\* (801-805)
move(drag, ex, shift) ==
  LET current_val == pos_to_value(ex, min_val, max_val, width)
      sd == start_drag(start_marker, current_val, shift, end_marker)
      ed == end_drag(end_marker, current_val, shift, start_marker)
  IN  /\ IF drag = "position"
         THEN /\ player_position' = SeekResult(current_val)
              /\ position' = SeekResult(current_val)
         ELSE UNCHANGED << player_position, position >>
      /\ IF drag = "start" /\ sd.emit
         THEN /\ start_time_ms' = sd.value
              /\ time_edit_start' = format_time(sd.value)
              /\ start_marker' = sd.value
         ELSE UNCHANGED << start_time_ms, time_edit_start, start_marker >>
      /\ IF drag = "end" /\ ed.emit
         THEN /\ end_time_ms' = ed.value
              /\ time_edit_end' = format_time(ed.value)
              /\ end_marker' = ed.value
         ELSE UNCHANGED << end_time_ms, time_edit_end, end_marker >>

\* mousePressEvent (222-234): pick the handle, sliderPressed -> on_slider_pressed
\* (745-751), then mouseMoveEvent(event)
mousePressEvent ==
  /\ phase = "running"
  /\ buttons < MaxButtons
  /\ \E ex \in Pixels :
       LET pos_x   == value_to_pos(position, min_val, max_val, width)
           start_x == value_to_pos(start_marker, min_val, max_val, width)
           end_x   == value_to_pos(end_marker, min_val, max_val, width)
           drag    == pick_handle(ex, pos_x, start_x, end_x)
       IN  /\ dragging' = drag
           /\ move(drag, ex, shift_down)
           /\ last' = [Did("mousePressEvent") EXCEPT !.px = << ex >>,
                                                     !.seek = emitted(drag, ex)]
  /\ buttons' = buttons + 1
  /\ playing_at_press' = IF buttons = 0 THEN playing ELSE playing_at_press
  /\ was_playing_before_drag' = playing
  /\ playing' = FALSE
  /\ UNCHANGED << assets, current_media_path, btn_trim_enabled, player_duration, range,
                  width, shift_down >>

mouseMoveEvent ==
  /\ phase = "running"
  /\ buttons > 0
  /\ \E ex \in Pixels :
       IF dragging = "none"
       THEN /\ UNCHANGED << player_position, position, start_time_ms, start_marker,
                            end_time_ms, end_marker, texts >>
            /\ last' = Did("mouseMoveEvent")
       ELSE /\ move(dragging, ex, shift_down)
            /\ last' = [Did("mouseMoveEvent") EXCEPT !.seek = emitted(dragging, ex)]
  /\ UNCHANGED << assets, current_media_path, btn_trim_enabled, player_duration, playing,
                  range, dragging, buttons, playing_at_press,
                  width, shift_down, was_playing_before_drag >>

\* mouseReleaseEvent (256-266): the snap of a playhead drag, then
\* sliderReleased -> on_slider_released (753-757)
mouseReleaseEvent ==
  /\ phase = "running"
  /\ buttons > 0
  /\ LET pos_x   == value_to_pos(position, min_val, max_val, width)
         start_x == value_to_pos(start_marker, min_val, max_val, width)
         end_x   == value_to_pos(end_marker, min_val, max_val, width)
         snapped == IF dragging # "position" THEN << >>
                    ELSE IF Abs(pos_x - start_x) < snap_threshold_px
                         THEN << start_marker >>
                    ELSE IF Abs(pos_x - end_x) < snap_threshold_px
                         THEN << end_marker >>
                    ELSE << >>
         snap    == IF snapped = << >> THEN player_position
                    ELSE SeekResult(snapped[1])
     IN  /\ player_position' = snap
         /\ position' = IF snap # player_position THEN snap ELSE position
         /\ last' = [Did("mouseReleaseEvent") EXCEPT !.seek = snapped]
  /\ dragging' = "none"
  /\ buttons' = buttons - 1
  /\ playing_at_press' = IF buttons = 1 THEN FALSE ELSE playing_at_press
  /\ playing' = (playing \/ was_playing_before_drag)
  /\ was_playing_before_drag' = FALSE
  /\ UNCHANGED << assets, current_media_path, btn_trim_enabled, player_duration,
                  start_time_ms, end_time_ms, texts, range, start_marker, end_marker,
                  width, shift_down >>

\* the Shift key goes down, or up: what keyboardModifiers() (239) reports
shift_key_pressed ==
  /\ phase = "running"
  /\ ~shift_down
  /\ shift_down' = TRUE
  /\ last' = Did("shift_key_pressed")
  /\ UNCHANGED << assets, media, range, position, start_marker, end_marker, dragging,
                  buttons, playing_at_press, width, was_playing_before_drag >>

shift_key_released ==
  /\ phase = "running"
  /\ shift_down
  /\ shift_down' = FALSE
  /\ last' = Did("shift_key_released")
  /\ UNCHANGED << assets, media, range, position, start_marker, end_marker, dragging,
                  buttons, playing_at_press, width, was_playing_before_drag >>

\* keyPressEvent (825-835) for the arrow keys: one frame forward or back, with
\* position_changed (725-733) run by the seek.  loop is the state of the loop
\* checkbox, which the user sets at will; when its branch is taken the player
\* is sent back to start_time_ms.
keyPressEvent ==
  /\ phase = "running"
  /\ \E key \in {"Key_Right", "Key_Left"}, loop \in BOOLEAN :
       LET current_pos == player_position
           sought      == SeekResult(IF key = "Key_Right"
                                     THEN current_pos + frame_duration_ms
                                     ELSE Max(0, current_pos - frame_duration_ms))
           looped      == /\ loop /\ playing
                          /\ end_time_ms > start_time_ms
                          /\ sought >= end_time_ms
                          /\ Abs(sought - end_time_ms) < 100
           final       == IF sought # current_pos /\ looped
                          THEN SeekResult(start_time_ms) ELSE sought
       IN  /\ player_position' = final
           /\ position' = final
  /\ last' = Did("keyPressEvent")
  /\ UNCHANGED << assets, current_media_path, btn_trim_enabled, player_duration,
                  start_time_ms, end_time_ms, texts, playing, range, start_marker,
                  end_marker, dragging, buttons, playing_at_press, width, shift_down,
                  was_playing_before_drag >>

\* ------------------------------------------------ the program
Worker ==
  \E i \in 1..Len(thumbnail_workers) :
     \/ run_check(i)
     \/ run_extract(i)
     \/ run_recheck(i)
     \/ on_thumbnail_ready(i)

Next ==
  \/ MainWindowInit
  \/ Worker
  \/ add_library
  \/ remove_library
  \/ on_file_selected
  \/ on_cache_item_selected
  \/ duration_changed
  \/ rename_cache_item
  \/ delete_cache_item
  \/ trim_media
  \/ mousePressEvent
  \/ mouseMoveEvent
  \/ mouseReleaseEvent
  \/ set_start_time_from_text
  \/ set_end_time_from_text
  \/ set_start_time_from_playhead
  \/ set_end_time_from_playhead
  \/ shift_key_pressed
  \/ shift_key_released
  \/ keyPressEvent

\* the whole program
Spec == Init /\ [][Next]_vars

\* The thumbnail pipeline: the worker threads and the handlers that start
\* workers or remove their target items.
NextThumbs ==
  \/ MainWindowInit
  \/ Worker
  \/ add_library
  \/ remove_library
  \/ delete_cache_item

SpecThumbs == Init /\ [][NextThumbs]_vars

\* The trim export: loading a media file, its duration, and trim_media with
\* the cache entries it adds.  The worker threads write only thumbnail_workers,
\* thumb_files and icon, which none of these handlers reads.
InitExport ==
  /\ Init
  /\ library_paths = << "L1" >>
  /\ thumb_files = {}
  /\ cache_files = {Name("c", ".mp4")}

NextExport ==
  \/ MainWindowInit
  \/ on_file_selected
  \/ on_cache_item_selected
  \/ duration_changed
  \/ trim_media

SpecExport == InitExport /\ [][NextExport]_vars

\* The trim export on a system whose file names are case-sensitive, where an
\* earlier session exported 0..1 of a file A.mp4: nexus_cache holds
\* A_trimmed_0_1.mp4.
InitReexport ==
  /\ phase = "constructing"
  /\ ffmpeg_path \in BOOLEAN
  /\ library_paths = << "L1" >>
  /\ lib_items = << >>
  /\ cache_list = << >>
  /\ icon = << >>
  /\ deleted = {}
  /\ next_id = 1
  /\ thumbnail_workers = << >>
  /\ thumb_files = {}
  /\ cache_files = {[base |-> "A", trim |-> << << 0, 1 >> >>, ext |-> ".mp4"]}
  /\ current_media_path = NoPath
  /\ btn_trim_enabled = FALSE
  /\ player_duration = 0
  /\ start_time_ms = 0
  /\ end_time_ms = 0
  /\ time_edit_start = << "0", "0", ":", "0", "0", ".", "0", "0", "0" >>
  /\ time_edit_end = << "0", "0", ":", "0", "0", ".", "0", "0", "0" >>
  /\ playing = FALSE
  /\ player_position = 0
  /\ was_playing_before_drag = FALSE
  /\ min_val = 0
  /\ max_val = InitialMax
  /\ position = 0
  /\ start_marker = 0
  /\ end_marker = InitialMax
  /\ dragging = "none"
  /\ buttons = 0
  /\ playing_at_press = FALSE
  /\ width \in Widths
  /\ shift_down = FALSE
  /\ last = Did("none")

SpecReexport == InitReexport /\ [][NextExport]_vars

\* The cache list: rename and delete of its entries, and the player they clear.
InitCache ==
  /\ Init
  /\ library_paths = << "L1" >>
  /\ thumb_files = {}
  /\ cache_files = {Name("c", ".mp4"), Name("s", ".mp3")}

NextCache ==
  \/ MainWindowInit
  \/ on_cache_item_selected
  \/ duration_changed
  \/ rename_cache_item
  \/ delete_cache_item

SpecCache == InitCache /\ [][NextCache]_vars

\* The trim slider and the player, with one library of one video.
InitSlider ==
  /\ Init
  /\ ffmpeg_path
  /\ library_paths = << "L1" >>
  /\ thumb_files = {}
  /\ cache_files = {}

NextSlider ==
  \/ MainWindowInit
  \/ on_file_selected
  \/ duration_changed
  \/ mousePressEvent
  \/ mouseMoveEvent
  \/ mouseReleaseEvent
  \/ shift_key_pressed

SpecSlider == InitSlider /\ [][NextSlider]_vars

\* The timeline: the slider's mouse handlers (Shift up) and the time fields.
NextTimeline ==
  \/ MainWindowInit
  \/ on_file_selected
  \/ duration_changed
  \/ mousePressEvent
  \/ mouseMoveEvent
  \/ mouseReleaseEvent
  \/ set_start_time_from_text
  \/ set_end_time_from_text

SpecTimeline == InitSlider /\ [][NextTimeline]_vars

\* Startup with or without the transcoder: the handlers that create thumbnail
\* workers or run the trim export, with loading, the playhead keys, the
\* marker buttons and the cache list.  The worker threads' own steps change
\* only the workers' progress, thumb_files and icon, which none of these reads.
InitPipelines ==
  /\ Init
  /\ library_paths = << "L1" >>
  /\ thumb_files = {}
  /\ cache_files = {Name("c", ".mp4")}

NextPipelines ==
  \/ MainWindowInit
  \/ on_file_selected
  \/ on_cache_item_selected
  \/ duration_changed
  \/ delete_cache_item
  \/ trim_media
  \/ keyPressEvent
  \/ set_start_time_from_playhead
  \/ set_end_time_from_playhead

SpecPipelines == InitPipelines /\ [][NextPipelines]_vars

\* The time codec at work: a.mp4 is loaded and its duration, one of
\* MediaDurations, has arrived (the state duration_changed leaves); then the
\* time fields and the slider format and parse the values.
MediaDurations ==
  { 0, 999, 1000, 59999, 60000, 5999999, 6000000 }

InitCodec ==
  LET lib == populate_libraries(<< "L1" >>, << >>, 1, FALSE) IN
  /\ phase = "running"
  /\ ffmpeg_path = FALSE
  /\ library_paths = << "L1" >>
  /\ lib_items = lib.items
  /\ cache_list = << >>
  /\ next_id = lib.next_id
  /\ icon = Icons(<< >>, lib.next_id, {})
  /\ deleted = {}
  /\ thumbnail_workers = << >>
  /\ thumb_files = {}
  /\ cache_files = {}
  /\ current_media_path = Path("L1", Name("a", ".mp4"))
  /\ btn_trim_enabled = FALSE
  /\ player_duration \in MediaDurations
  /\ start_time_ms = 0
  /\ end_time_ms = player_duration
  /\ time_edit_start = format_time(0)
  /\ time_edit_end = format_time(player_duration)
  /\ playing = TRUE
  /\ player_position = 0
  /\ was_playing_before_drag = FALSE
  /\ min_val = 0
  /\ max_val = player_duration
  /\ position = 0
  /\ start_marker = 0
  /\ end_marker = player_duration
  /\ dragging = "none"
  /\ buttons = 0
  /\ playing_at_press = FALSE
  /\ width \in Widths
  /\ shift_down = FALSE
  /\ last = Did("duration_changed")

NextCodec ==
  \/ mousePressEvent
  \/ mouseMoveEvent
  \/ mouseReleaseEvent
  \/ set_start_time_from_text
  \/ set_end_time_from_text

SpecCodec == InitCodec /\ [][NextCodec]_vars

\* Drags of the slider with the player stopped or playing.  The slider grabs
\* the mouse while a button is held, so a file is selected only between drags.
select_file_idle ==
  /\ buttons = 0
  /\ on_file_selected

NextDrag ==
  \/ MainWindowInit
  \/ select_file_idle
  \/ duration_changed
  \/ mousePressEvent
  \/ mouseMoveEvent
  \/ mouseReleaseEvent

SpecDrag == InitSlider /\ [][NextDrag]_vars

\* ================================================================ claims

\* C1: starting from start < end, no drag update (mouseMoveEvent, alone or as
\* the tail of mousePressEvent) reaches a state where the start marker is
\* greater than or equal to the end marker.
C1_DragKeepsStartBeforeEnd ==
  [][ ( /\ start_marker < end_marker
        /\ last'.op \in {"mouseMoveEvent", "mousePressEvent"} )
      => start_marker' < end_marker' ]_vars

\* C2: a trim export requested with start >= end, or with no media loaded,
\* invokes no transcoder process and leaves the cache index (list and files)
\* unchanged; the transcoder is only ever invoked with a media asset loaded and
\* start < end.
C2_TrimOnlyWhenValid ==
  /\ [] ( (last.op = "trim_media" /\ last.transcoder # "none")
          => (current_media_path # NoPath /\ start_time_ms < end_time_ms) )
  /\ [][ ( /\ last'.op = "trim_media"
           /\ (current_media_path = NoPath \/ start_time_ms >= end_time_ms) )
         => ( /\ last'.transcoder = "none"
              /\ cache_list' = cache_list
              /\ cache_files' = cache_files ) ]_vars

\* a trim was requested with media loaded and start >= end, and rejected
C2_Witness ==
  /\ last.op = "trim_media"
  /\ last.dialog = "Trim Error"
  /\ current_media_path # NoPath
  /\ start_time_ms >= end_time_ms
  /\ last.transcoder = "none"

\* C3: when the transcoder fails during a trim export (nonzero exit or launch
\* failure) the failure is reported as an export error, and after the call the
\* cache index holds no entry for an output file the failed run wrote or partly
\* wrote.
C3_FailedExportReportedAndUnregistered ==
  (last.op = "trim_media" /\ last.transcoder \in {"failed", "not launched"})
  => ( /\ last.dialog = "FFmpeg Error"
       /\ last.raised = "none"
       /\ last.wrote => \A k \in 1..Len(cache_list) : cache_list[k].path # last.output )

\* C4: a thumbnail job that finds its output file on disk when it runs never
\* invokes the frame extractor and emits the callback with the existing file,
\* however many such jobs there are.
C4_ExistingThumbnailNotExtracted ==
  \A i \in 1..Len(thumbnail_workers) :
     LET w == thumbnail_workers[i] IN
     w.hit => ( /\ ~w.ran
                /\ ~w.failed
                /\ w.pc \in {"queued", "done"} => w.emitted )

\* two jobs of one output path found the file, ran no extractor, and one of
\* them delivered its icon
C4_Witness ==
  \E i, j \in 1..Len(thumbnail_workers) :
     LET w == thumbnail_workers[i]
         v == thumbnail_workers[j]
     IN  /\ i # j
         /\ w.thumb_path = v.thumb_path
         /\ w.hit /\ v.hit
         /\ ~w.ran /\ ~v.ran
         /\ w.delivery = "applied"
         /\ icon[w.item] = w.thumb_path

\* C5: a thumbnail job whose frame extractor fails emits no callback, raises
\* nothing on the control thread, and its target item keeps the placeholder icon.
C5_FailedExtractionIsSilent ==
  \A i \in 1..Len(thumbnail_workers) :
     LET w == thumbnail_workers[i] IN
     w.failed => ( /\ w.pc = "done"
                   /\ ~w.emitted
                   /\ w.delivery = "none"
                   /\ icon[w.item] = NoName )

\* an extractor failed although a thumbnail file of that name is on disk
C5_Witness ==
  \E i \in 1..Len(thumbnail_workers) :
     LET w == thumbnail_workers[i] IN
     /\ w.failed
     /\ w.ran
     /\ ThumbExists(thumb_files, w.thumb_path)
     /\ w.item \notin deleted

\* C6: at most one thumbnail job is in flight (its run() has not returned, or
\* its signal is still queued) for a given identity, the (media path, thumbnail
\* path) pair, in every reachable state.
C6_OneJobPerIdentity ==
  \A i, j \in 1..Len(thumbnail_workers) :
     LET w == thumbnail_workers[i]
         v == thumbnail_workers[j]
     IN  ( /\ i # j
           /\ w.pc # "done" /\ v.pc # "done"
           /\ w.thumb_path = v.thumb_path )
         => w.media_path # v.media_path

\* C7: a thumbnail job whose target item was removed before the job completed
\* still completes, and its delivery raises no error on the control thread and
\* applies no icon to an item that is gone.
C7_RemovedTargetIsDiscarded ==
  \A i \in 1..Len(thumbnail_workers) :
     LET w == thumbnail_workers[i] IN
     (w.pc = "done" /\ w.item \in deleted) => w.delivery # "raised"

\* C8: add_to_cache_list is first-writer-wins on the basename: adding a path
\* whose basename is the display name of an entry leaves the list as it was,
\* and no add produces two entries with one display name.
C8_AddIsFirstWriterWins ==
  /\ [][ ( /\ last'.op = "trim_media"
           /\ last'.transcoder = "ok"
           /\ \E k \in 1..Len(cache_list) :
                 cache_list[k].text = basename(last'.output) )
         => cache_list' = cache_list ]_vars
  /\ [][ LET UniqueTexts(items) ==
               \A a, b \in 1..Len(items) : items[a].text = items[b].text => a = b
         IN  (last'.op \in {"trim_media", "__init__"} /\ UniqueTexts(cache_list))
             => UniqueTexts(cache_list') ]_vars

\* a range was exported a second time and the list kept its one entry for it
C8_Witness ==
  /\ last.op = "trim_media"
  /\ last.transcoder = "ok"
  /\ ~last.added
  /\ Cardinality({k \in 1..Len(cache_list) : cache_list[k].text = basename(last.output)}) = 1

\* C9: renaming a cache entry to the key of a different entry fails and leaves
\* both entries unchanged; no rename produces two entries with the same display
\* name or the same file path.
C9_RenameKeepsKeysUnique ==
  [][ LET Unique(items) ==
            \A a, b \in 1..Len(items) :
               (items[a].text = items[b].text \/ items[a].path = items[b].path) => a = b
      IN  (last'.op = "rename_cache_item" /\ Unique(cache_list))
          => Unique(cache_list') ]_vars

\* C10: when os.rename or os.remove fails, the cache list is unchanged: the
\* entry is still there with its display name and file path.
C10_FailedFileOperationKeepsIndex ==
  [][ ( /\ last'.op \in {"rename_cache_item", "delete_cache_item"}
        /\ last'.raised = "OSError" )
      => cache_list' = cache_list ]_vars

\* a delete failed and a rename failed with the entry still listed
C10_Witness ==
  /\ last.op \in {"rename_cache_item", "delete_cache_item"}
  /\ last.raised = "OSError"
  /\ last.dialog \in {"Rename Error", "Delete Error"}
  /\ Len(cache_list) > 0

\* C11: every playhead value the slider emits, by a playhead drag or by the
\* snap of a release, lies in [min, max].
C11_PlayheadWithinRange ==
  \A i \in 1..Len(last.seek) : min_val <= last.seek[i] /\ last.seek[i] <= max_val

\* C12: a playhead drag released with the playhead's pixel within
\* snap_threshold_px of a marker's pixel leaves the playhead at that marker's
\* value; and a press at a pixel within snap_threshold_px of the end marker's
\* pixel (and of no other marker's), released at once, leaves the playhead at
\* the end marker.
C12_ReleaseSnapsToMarker ==
  [][ last'.op = "mouseReleaseEvent" =>
        LET pos_x      == value_to_pos(position, min_val, max_val, width)
            start_x    == value_to_pos(start_marker, min_val, max_val, width)
            end_x      == value_to_pos(end_marker, min_val, max_val, width)
            near_start == Abs(pos_x - start_x) < snap_threshold_px
            near_end   == Abs(pos_x - end_x) < snap_threshold_px
        IN  /\ (dragging = "position" /\ (near_start \/ near_end))
                 => \/ near_start /\ position' = start_marker
                    \/ near_end /\ position' = end_marker
            /\ ( /\ last.op = "mousePressEvent"
                 /\ Abs(last.px[1] - end_x) < snap_threshold_px
                 /\ Abs(last.px[1] - start_x) >= snap_threshold_px )
                 => position' = end_marker
    ]_vars

\* C13: a press starts the drag of exactly one of the three handles: the one
\* nearest to the pointer among those whose pixel is within handle_width / 2
\* of it, and the playhead when none is.
C13_PressPicksNearestHandle ==
  [][ last'.op = "mousePressEvent" =>
        LET ex      == last'.px[1]
            pos_x   == value_to_pos(position, min_val, max_val, width)
            start_x == value_to_pos(start_marker, min_val, max_val, width)
            end_x   == value_to_pos(end_marker, min_val, max_val, width)
            dist    == [h \in {"start", "end", "position"} |->
                          Abs(ex - (CASE h = "start" -> start_x
                                      [] h = "end" -> end_x
                                      [] OTHER -> pos_x))]
            within  == { h \in DOMAIN dist : dist[h] < handle_width \div 2 }
        IN  /\ dragging' \in {"start", "end", "position"}
            /\ within = {} => dragging' = "position"
            /\ within # {} => /\ dragging' \in within
                              /\ \A h \in within : dist[dragging'] <= dist[h]
    ]_vars

\* C14: the pixel of every handle value lies in
\* [handle_width / 2, width - handle_width / 2]; it is the left end for a value
\* at or below min, the right end for a value at or above max, and grows with
\* the value by the track's share of the range; when max = min it is the
\* midpoint of that interval.
C14_ValueToPixelLinear ==
  LET lo == handle_width \div 2
      hi == width - handle_width \div 2
  IN  \A v \in {position, start_marker, end_marker} :
        LET px == value_to_pos(v, min_val, max_val, width) IN
        /\ lo <= px /\ px <= hi
        /\ max_val = min_val => px = (lo + hi) \div 2
        /\ max_val # min_val =>
             /\ v <= min_val => px = lo
             /\ v >= max_val => px = hi
             /\ (min_val <= v /\ v <= max_val) =>
                  /\ (px - lo) * (max_val - min_val) <= (v - min_val) * (hi - lo)
                  /\ (v - min_val) * (hi - lo) < (px - lo + 1) * (max_val - min_val)

\* C15: right after a media file is loaded, and right after its duration has
\* arrived, the start marker is at min, the end marker at max and the playhead
\* at 0, whatever the markers were before; after the duration has arrived max
\* is the duration of the loaded file.
C15_TimelineResetOnLoad ==
  /\ last.op \in {"load_media", "duration_changed"} =>
       /\ start_marker = min_val
       /\ end_marker = max_val
       /\ position = 0
  /\ last.op = "duration_changed" => max_val = DurationOf(current_media_path)

\* C16: when no transcoder was found at startup, no thumbnail worker is ever
\* created, the trim button is never enabled and no handler runs the transcoder.
C16_NoPipelineWithoutFfmpeg ==
  ~ffmpeg_path =>
    /\ thumbnail_workers = << >>
    /\ ~btn_trim_enabled
    /\ last.transcoder = "none"

\* without the transcoder: the cache entry was deleted, a file is loaded and
\* played, and the end marker has just been set from the playhead
C16_Witness ==
  /\ ~ffmpeg_path
  /\ phase = "running" /\ cache_list = << >>
  /\ current_media_path = Path("L1", Name("a", ".mp4"))
  /\ player_duration = MaxDuration
  /\ last.op = "set_end_time_from_playhead"
  /\ player_position > start_time_ms
  /\ end_time_ms = player_position /\ end_marker = player_position

\* C17: two successive successful exports of the same file and range name the
\* same output file and the second leaves the cache list as it was; after
\* every successful export the cache list holds exactly one entry named as the
\* output file.
C17_ReexportIsIdempotent ==
  [][ (last'.op = "trim_media" /\ last'.transcoder = "ok") =>
        /\ Cardinality({ k \in 1..Len(cache_list') :
                           cache_list'[k].text = basename(last'.output) }) = 1
        /\ (last.op = "trim_media" /\ last.transcoder = "ok") =>
              /\ last'.output = last.output
              /\ cache_list' = cache_list
    ]_vars

\* C18: every time value of the program that is not negative and has fewer
\* than 100 minutes is given back by parse_time from the text format_time
\* makes of it.
C18_ParseInvertsFormat ==
  \A ms \in {start_time_ms, end_time_ms, player_position, player_duration} :
     (ms >= 0 /\ ms \div 60000 < 100) => parse_time(format_time(ms)) = ms

\* the end field held the text of 99:59.999, the largest value of the claim,
\* and set_end_time_from_text has parsed it
C18_Witness ==
  /\ last.op = "set_end_time_from_text"
  /\ end_time_ms = 5999999
  /\ time_edit_end = format_time(end_time_ms)
  /\ start_time_ms > 0

\* C19: an edit of a time field changes a marker only when the whole text of
\* the field is 1-2 digits, ':', 2 digits, '.', 3 digits; any other text,
\* also one that goes on after such a timecode, changes no marker.
C19_OnlyWholeTimecodeAccepted ==
  [][ last'.op \in {"set_start_time_from_text", "set_end_time_from_text"} =>
        LET t     == IF last'.op = "set_start_time_from_text"
                     THEN time_edit_start' ELSE time_edit_end'
            whole == \E n \in {1, 2} : Len(t) = n + 7 /\ MatchesWith(t, n)
        IN  ( \/ start_time_ms' # start_time_ms \/ start_marker' # start_marker
              \/ end_time_ms' # end_time_ms \/ end_marker' # end_marker ) => whole
    ]_vars

\* C20: whenever run() of a thumbnail worker returns while the complete
\* thumbnail file of its path is on disk, the worker has emitted
\* thumbnailReady, whichever worker wrote the file.
C20_FinishedJobWithFileDelivers ==
  [][ \A i \in 1..Len(thumbnail_workers) :
        LET w == thumbnail_workers[i]
            v == thumbnail_workers'[i]
        IN  ( /\ w.pc \notin {"queued", "done"}
              /\ v.pc \in {"queued", "done"}
              /\ \E f \in thumb_files' : f.name = v.thumb_path /\ f.whole )
            => v.emitted
    ]_vars

\* C21: the icon a thumbnail worker delivered to its item is the file of a
\* frame extracted from that worker's own media file.
C21_IconFromOwnSource ==
  \A i \in 1..Len(thumbnail_workers) :
     LET w == thumbnail_workers[i] IN
     (w.delivery = "applied" /\ icon[w.item] = w.thumb_path) =>
        \A f \in thumb_files : f.name = icon[w.item] => f.src = w.media_path

\* C22: when the last held button is released over the slider, the player is
\* playing exactly if it was playing when the first button of the drag went
\* down, whatever presses, moves and releases came in between.
C22_PlaybackRestoredAfterDrag ==
  [][ (last'.op = "mouseReleaseEvent" /\ buttons = 1) => playing' = playing_at_press
    ]_vars

====
